---- MODULE Spec2Model ----
(***************************************************************************)
(* Conway's Game of Life on a toroidal grid: a model of src/src/lib.rs     *)
(* (struct Universe, enum Cell and their methods).                         *)
(*                                                                         *)
(* cells is Vec<Cell>: a function on 0 .. width*height-1 (Rust indexes     *)
(* from 0).  Arrays returned by the code ([usize; 8], the rendered text)   *)
(* are sequences, so array slot i of the code is element i+1 here.         *)
(* All u32 values stay far below 2^32 at the sizes explored, so the        *)
(* arithmetic is written without the wrap.                                 *)
(***************************************************************************)
EXTENDS Integers, Sequences, FiniteSets

VARIABLES
  width,   \* Universe.width
  height,  \* Universe.height
  cells,   \* Universe.cells
  last,    \* the most recent call: [op |-> name, args |-> its arguments]
  ret,     \* what the most recent call returned (<<>> for a call returning ())
  trail,   \* history: the calls made since the grid was last blanked,
           \* kept by the scenario specification only
  frame    \* the locals of a tick in progress, [next |-> .., k |-> ..] with
           \* k the number of loop iterations done; <<>> when none is

vars == <<width, height, cells, last, ret, trail, frame>>

(***************************************************************************)
(* Bounds of the explored instances.  Universe::new builds a 128 x 128     *)
(* grid; every method reads the sizes from self.width and self.height, and *)
(* the model explores the same methods on small grids.                     *)
(***************************************************************************)
MaxWidth == 3
MaxHeight == 3
MaxCells == 9
MaxStampDim == 4
MaxStampCells == 12
MaxBlankDim == 6
MaxGen == 4
MaxOver == 1

(***************************************************************************)
(* enum Cell                                                               *)
(***************************************************************************)
Dead == 0
Alive == 1

Cell == {Dead, Alive}

\* Mutant: sets the cell instead of flipping it.
toggle_SetAlive(cell) == Alive

toggle(cell) == IF cell = Dead THEN Alive ELSE Dead

\* What a call returns when an index into cells is out of bounds: Vec's
\* bounds check panics and the call is abandoned at that point.
Panic == "panic"

(***************************************************************************)
(* Private helpers of Universe                                             *)
(***************************************************************************)
\* Mutant: the row stride taken from height instead of width.
get_index_HeightStride(row, column) == row * height + column

get_index(row, column) == row * width + column

\* Mutant: the column deltas taken from height instead of width.
delta_pairs_HeightForCols ==
  LET delta_rows == <<height - 1, 0, 1>>
      delta_cols == <<height - 1, 0, 1>>
  IN  [k \in 1..9 |-> <<delta_rows[((k - 1) \div 3) + 1], delta_cols[((k - 1) % 3) + 1]>>]

\* The deltas in the order the two nested loops visit them.
delta_pairs ==
  LET delta_rows == <<height - 1, 0, 1>>
      delta_cols == <<width - 1, 0, 1>>
  IN  [k \in 1..9 |-> <<delta_rows[((k - 1) \div 3) + 1], delta_cols[((k - 1) % 3) + 1]>>]

\* `continue` skips a pair with both deltas 0; slots never written keep the
\* 0 the array was created with.
neighbor_indexs(row, column) ==
  LET kept == SelectSeq(delta_pairs, LAMBDA p : ~(p[1] = 0 /\ p[2] = 0))
  IN  [i \in 1..8 |->
        IF i <= Len(kept)
          THEN get_index((row + kept[i][1]) % height, (column + kept[i][2]) % width)
          ELSE 0]

RECURSIVE count_from(_, _, _)
count_from(cs, idxs, i) ==
  IF i > Len(idxs) THEN 0 ELSE cs[idxs[i]] + count_from(cs, idxs, i + 1)

live_neighbor_count(row, column) ==
  LET idxs == neighbor_indexs(row, column)
  IN  IF \A i \in 1..8 : idxs[i] \in DOMAIN cells
        THEN count_from(cells, idxs, 1)
        ELSE Panic

(***************************************************************************)
(* Universe::tick                                                          *)
(***************************************************************************)
\* Mutant: the catch-all arm yields Alive.
next_cell_DefaultAlive(cell, live_neighbors) ==
  IF cell = Alive /\ live_neighbors < 2 THEN Dead
  ELSE IF cell = Alive /\ live_neighbors \in {2, 3} THEN Alive
  ELSE IF cell = Alive /\ live_neighbors > 3 THEN Dead
  ELSE IF cell = Dead /\ live_neighbors = 3 THEN Alive
  ELSE Alive

\* Mutant: the underpopulation arm yields Alive.
next_cell_LonelySurvives(cell, live_neighbors) ==
  IF cell = Alive /\ live_neighbors < 2 THEN Alive
  ELSE IF cell = Alive /\ live_neighbors \in {2, 3} THEN Alive
  ELSE IF cell = Alive /\ live_neighbors > 3 THEN Dead
  ELSE IF cell = Dead /\ live_neighbors = 3 THEN Alive
  ELSE cell

\* Mutant: overpopulation from 3 neighbours on (x >= 3 for x > 3).
next_cell_CrowdedAt3(cell, live_neighbors) ==
  IF cell = Alive /\ live_neighbors < 2 THEN Dead
  ELSE IF cell = Alive /\ live_neighbors = 2 THEN Alive
  ELSE IF cell = Alive /\ live_neighbors >= 3 THEN Dead
  ELSE IF cell = Dead /\ live_neighbors = 3 THEN Alive
  ELSE cell

next_cell(cell, live_neighbors) ==
  IF cell = Alive /\ live_neighbors < 2 THEN Dead
  ELSE IF cell = Alive /\ live_neighbors \in {2, 3} THEN Alive
  ELSE IF cell = Alive /\ live_neighbors > 3 THEN Dead
  ELSE IF cell = Dead /\ live_neighbors = 3 THEN Alive
  ELSE cell

\* Mutant: the update done in place, reading the buffer being written.
TickCell_InPlace(next, row, col) ==
  LET idx == get_index(row, col)
  IN  [next EXCEPT ![idx] =
         next_cell(next[idx], count_from(next, neighbor_indexs(row, col), 1))]

\* One iteration of the loop body: reads self.cells, writes next.
TickCell(next, row, col) ==
  LET idx == get_index(row, col)
  IN  [next EXCEPT ![idx] = next_cell(cells[idx], live_neighbor_count(row, col))]

\* Mutant: the row loop stops one row early (0..height - 1).
RECURSIVE TickLoop_SkipLastRow(_, _)
TickLoop_SkipLastRow(next, k) ==
  IF k >= (height - 1) * width THEN next
  ELSE TickLoop_SkipLastRow(TickCell(next, k \div width, k % width), k + 1)

\* The two nested loops, iteration k being row k \div width, col k % width.
RECURSIVE TickLoop(_, _)
TickLoop(next, k) ==
  IF k >= height * width THEN next
  ELSE TickLoop(TickCell(next, k \div width, k % width), k + 1)

\* Some index the loops compute is out of bounds: the call panics, and
\* next is dropped with self.cells never assigned.
TickPanics ==
  \E row \in 0..(height - 1), col \in 0..(width - 1) :
    LET idxs == neighbor_indexs(row, col)
    IN  \/ get_index(row, col) \notin DOMAIN cells
        \/ \E i \in 1..8 : idxs[i] \notin DOMAIN cells

TickResult == IF TickPanics THEN cells ELSE TickLoop(cells, 0)

tick ==
  /\ cells' = TickResult
  /\ last' = [op |-> "tick", args |-> <<>>]
  /\ ret' = IF TickPanics THEN Panic ELSE <<>>
  /\ UNCHANGED <<width, height>>

(***************************************************************************)
(* Universe::new, all_kill, reset                                          *)
(***************************************************************************)
Grids(w, h) == [0..(w * h - 1) -> Cell]

new ==
  /\ width \in 1..MaxWidth
  /\ height \in 1..MaxHeight
  /\ width * height <= MaxCells
  /\ cells \in Grids(width, height)
  /\ last = [op |-> "new", args |-> <<>>]
  /\ ret = <<>>

\* Mutant: width * width cells instead of width * height.
AllKillResult_WidthSquared == [i \in 0..(width * width - 1) |-> Dead]

\* Mutant: the cells mapped to Alive.
AllKillResult_Alive == [i \in 0..(width * height - 1) |-> Alive]

AllKillResult == [i \in 0..(width * height - 1) |-> Dead]

all_kill ==
  /\ cells' = AllKillResult
  /\ last' = [op |-> "all_kill", args |-> <<>>]
  /\ ret' = <<>>
  /\ UNCHANGED <<width, height>>

reset ==
  /\ cells' \in Grids(width, height)
  /\ last' = [op |-> "reset", args |-> <<>>]
  /\ ret' = <<>>
  /\ UNCHANGED <<width, height>>

(***************************************************************************)
(* Universe::toggle_cell, insert_glider                                    *)
(***************************************************************************)
\* self.cells[idx] panics, with nothing written, when idx is out of bounds.
ToggleResult(row, column) ==
  LET idx == get_index(row, column)
  IN  IF idx \in DOMAIN cells THEN [cells EXCEPT ![idx] = toggle(cells[idx])] ELSE cells

ToggleReturn(row, column) ==
  IF get_index(row, column) \in DOMAIN cells THEN <<>> ELSE Panic

toggle_cell(row, column) ==
  /\ cells' = ToggleResult(row, column)
  /\ last' = [op |-> "toggle_cell", args |-> <<row, column>>]
  /\ ret' = ToggleReturn(row, column)
  /\ UNCHANGED <<width, height>>

neighbor_values == <<Dead, Alive, Dead, Dead, Alive, Alive, Alive, Alive>>

\* The loop over neighbor_indexes, writing slot after slot; a write out of
\* bounds panics and ends it, the earlier writes staying.
RECURSIVE StampFrom(_, _, _)
StampFrom(cs, idxs, i) ==
  IF i > Len(idxs) \/ idxs[i] \notin DOMAIN cs THEN cs
  ELSE StampFrom([cs EXCEPT ![idxs[i]] = neighbor_values[i]], idxs, i + 1)

\* Mutant: the centre cell is not cleared.
GliderResult_KeepCenter(row, column) ==
  StampFrom(cells, neighbor_indexs(row, column), 1)

GliderResult(row, column) ==
  LET neighbor_indexes == neighbor_indexs(row, column)
      center_idx == get_index(row, column)
  IN  IF center_idx \in DOMAIN cells
        THEN StampFrom([cells EXCEPT ![center_idx] = Dead], neighbor_indexes, 1)
        ELSE cells

GliderReturn(row, column) ==
  LET idxs == neighbor_indexs(row, column)
  IN  IF /\ get_index(row, column) \in DOMAIN cells
         /\ \A i \in 1..8 : idxs[i] \in DOMAIN cells
        THEN <<>>
        ELSE Panic

insert_glider(row, column) ==
  /\ cells' = GliderResult(row, column)
  /\ last' = [op |-> "insert_glider", args |-> <<row, column>>]
  /\ ret' = GliderReturn(row, column)
  /\ UNCHANGED <<width, height>>

(***************************************************************************)
(* Universe::render and impl fmt::Display                                  *)
(***************************************************************************)
LightGlyph == "U+25FB"
DarkGlyph == "U+25FC"
Newline == "\n"

\* Mutant: the two glyphs exchanged.
symbol_Swapped(cell) == IF cell = Dead THEN DarkGlyph ELSE LightGlyph

symbol(cell) == IF cell = Dead THEN LightGlyph ELSE DarkGlyph

\* cells.chunks(width): chunk i starts at i*width; the last may be shorter.
RECURSIVE fmt_from(_)
fmt_from(i) ==
  LET len == Cardinality(DOMAIN cells)
      start == i * width
      stop == IF start + width <= len THEN start + width ELSE len
  IN  IF start >= len THEN <<>>
      ELSE [k \in 1..(stop - start) |-> symbol(cells[start + k - 1])]
             \o <<Newline>> \o fmt_from(i + 1)

fmt == fmt_from(0)

render ==
  /\ ret' = fmt
  /\ last' = [op |-> "render", args |-> <<>>]
  /\ UNCHANGED <<width, height, cells>>

(***************************************************************************)
(* The program: any sequence of calls with valid coordinates.              *)
(***************************************************************************)
Rows == 0..(height - 1)
Cols == 0..(width - 1)

Init == new /\ trail = <<>> /\ frame = <<>>

Next ==
  \/ tick /\ UNCHANGED <<trail, frame>>
  \/ all_kill /\ UNCHANGED <<trail, frame>>
  \/ reset /\ UNCHANGED <<trail, frame>>
  \/ render /\ UNCHANGED <<trail, frame>>
  \/ \E row \in Rows, column \in Cols : toggle_cell(row, column) /\ UNCHANGED <<trail, frame>>
  \/ \E row \in Rows, column \in Cols : insert_glider(row, column) /\ UNCHANGED <<trail, frame>>

Spec == Init /\ [][Next]_vars

(***************************************************************************)
(* The private helpers called on their own, on any grid `new` can build.   *)
(***************************************************************************)
call_get_index(row, column) ==
  /\ ret' = get_index(row, column)
  /\ last' = [op |-> "get_index", args |-> <<row, column>>]
  /\ UNCHANGED <<width, height, cells>>

call_neighbor_indexs(row, column) ==
  /\ ret' = neighbor_indexs(row, column)
  /\ last' = [op |-> "neighbor_indexs", args |-> <<row, column>>]
  /\ UNCHANGED <<width, height, cells>>

call_live_neighbor_count(row, column) ==
  /\ ret' = live_neighbor_count(row, column)
  /\ last' = [op |-> "live_neighbor_count", args |-> <<row, column>>]
  /\ UNCHANGED <<width, height, cells>>

QueryNext ==
  \/ \E row \in Rows, column \in Cols : call_get_index(row, column) /\ UNCHANGED <<trail, frame>>
  \/ \E row \in Rows, column \in Cols : call_neighbor_indexs(row, column) /\ UNCHANGED <<trail, frame>>
  \/ \E row \in Rows, column \in Cols : call_live_neighbor_count(row, column) /\ UNCHANGED <<trail, frame>>

QuerySpec == Init /\ [][QueryNext]_vars

(***************************************************************************)
(* tick one loop iteration at a time: the clone of cells into next, the    *)
(* iterations writing next, and the assignment self.cells = next.          *)
(***************************************************************************)
\* Mutant: the loop body writes the cell into self.cells as well.
LoopCells_InPlace(next) == next

\* self.cells after a loop iteration that left `next` in the local buffer:
\* the body assigns next[idx] only.
LoopCells(next) == cells

tick_begin ==
  /\ frame = <<>>
  /\ frame' = [next |-> cells, k |-> 0]
  /\ last' = [op |-> "tick", args |-> <<>>]
  /\ UNCHANGED <<width, height, cells, ret>>

tick_step ==
  /\ frame # <<>>
  /\ frame.k < height * width
  /\ LET next == TickCell(frame.next, frame.k \div width, frame.k % width)
     IN  /\ frame' = [next |-> next, k |-> frame.k + 1]
         /\ cells' = LoopCells(next)
  /\ UNCHANGED <<width, height, last, ret>>

tick_end ==
  /\ frame # <<>>
  /\ frame.k >= height * width
  /\ cells' = frame.next
  /\ frame' = <<>>
  /\ ret' = <<>>
  /\ UNCHANGED <<width, height, last>>

StepNext ==
  \/ tick_begin /\ UNCHANGED trail
  \/ tick_step /\ UNCHANGED trail
  \/ tick_end /\ UNCHANGED trail

StepSpec == Init /\ [][StepNext]_vars

(***************************************************************************)
(* toggle_cell and insert_glider called with any coordinates, up to        *)
(* MaxOver beyond the last row and column: neither method checks them.     *)
(***************************************************************************)
AnyRows == 0..(height - 1 + MaxOver)
AnyCols == 0..(width - 1 + MaxOver)

AnyNext ==
  \/ \E row \in AnyRows, column \in AnyCols : toggle_cell(row, column) /\ UNCHANGED <<trail, frame>>
  \/ \E row \in AnyRows, column \in AnyCols : insert_glider(row, column) /\ UNCHANGED <<trail, frame>>

AnySpec == Init /\ [][AnyNext]_vars

(***************************************************************************)
(* insert_glider on grids large enough to have cells outside the stamped   *)
(* block, whatever they hold.                                              *)
(***************************************************************************)
StampInit ==
  /\ width \in 3..MaxStampDim
  /\ height \in 3..MaxStampDim
  /\ width * height <= MaxStampCells
  /\ cells \in Grids(width, height)
  /\ last = [op |-> "new", args |-> <<>>]
  /\ ret = <<>>
  /\ trail = <<>>
  /\ frame = <<>>

StampNext ==
  \E row \in Rows, column \in Cols : insert_glider(row, column) /\ UNCHANGED <<trail, frame>>

StampSpec == StampInit /\ [][StampNext]_vars

(***************************************************************************)
(* Scenarios on a blanked grid (the state all_kill leaves): a glider       *)
(* stamped and ticked at most MaxGen times, or one cell toggled and the    *)
(* neighbour counts then read.  trail records the calls since all_kill.    *)
(***************************************************************************)
BlankInit ==
  /\ width \in 3..MaxBlankDim
  /\ height \in 3..MaxBlankDim
  /\ cells = AllKillResult
  /\ last = [op |-> "all_kill", args |-> <<>>]
  /\ ret = <<>>
  /\ trail = <<>>
  /\ frame = <<>>

BlankNext ==
  \/ \E row \in Rows, column \in Cols :
       trail = <<>> /\ insert_glider(row, column) /\ trail' = <<last'>> /\ UNCHANGED frame
  \/ /\ trail # <<>>
     /\ trail[1].op = "insert_glider"
     /\ Len(trail) <= MaxGen
     /\ tick
     /\ trail' = Append(trail, last') /\ UNCHANGED frame
  \/ \E row \in Rows, column \in Cols :
       trail = <<>> /\ toggle_cell(row, column) /\ trail' = <<last'>> /\ UNCHANGED frame
  \/ \E row \in Rows, column \in Cols :
       /\ trail # <<>>
       /\ trail[1].op = "toggle_cell"
       /\ call_live_neighbor_count(row, column)
       /\ UNCHANGED <<trail, frame>>
  \/ trail # <<>> /\ all_kill /\ trail' = <<>> /\ UNCHANGED frame

BlankSpec == BlankInit /\ [][BlankNext]_vars

(***************************************************************************)
(* A grid and its translation, each ticked once: any grid is taken, its    *)
(* tick is kept aside in trail with the shift (a, b), the grid is replaced *)
(* by its translation by (a, b) on the torus, and tick is called on that.  *)
(***************************************************************************)
\* cs moved down by a rows and right by b columns, modulo (height, width).
Translate(cs, a, b) ==
  [i \in DOMAIN cs |->
     cs[get_index(((i \div width) - a) % height, ((i % width) - b) % width)]]

ShiftInit ==
  /\ width \in 1..MaxWidth
  /\ height \in 1..MaxHeight
  /\ width * height <= MaxCells
  /\ cells \in Grids(width, height)
  /\ last = [op |-> "new", args |-> <<>>]
  /\ ret = <<>>
  /\ trail = <<>>
  /\ frame = <<>>

shift(a, b) ==
  /\ trail = <<>>
  /\ trail' = <<[op |-> "shift", args |-> <<a, b>>, ticked |-> TickResult]>>
  /\ cells' = Translate(cells, a, b)
  /\ UNCHANGED <<width, height, last, ret, frame>>

ShiftNext ==
  \/ \E a \in Rows, b \in Cols : shift(a, b)
  \/ Len(trail) = 1 /\ tick /\ trail' = Append(trail, last') /\ UNCHANGED frame

ShiftSpec == ShiftInit /\ [][ShiftNext]_vars

(***************************************************************************)
(* Properties of the program                                               *)
(***************************************************************************)
Index(row, column) == row * width + column

AllDead(cs) == \A i \in DOMAIN cs : cs[i] = Dead

AliveSet(cs) == {i \in DOMAIN cs : cs[i] = Alive}

\* The offsets of the eight neighbours, in the order dr then dc.
Offsets ==
  <<<<-1, -1>>, <<-1, 0>>, <<-1, 1>>, <<0, -1>>, <<0, 1>>, <<1, -1>>, <<1, 0>>, <<1, 1>>>>

\* The toroidal neighbour coordinates of (row, column), in that order.
Around(row, column) ==
  [k \in 1..8 |-> <<(row + Offsets[k][1]) % height, (column + Offsets[k][2]) % width>>]

\* C1: after a tick every cell is Alive exactly when, in the generation
\* before the tick, it was Alive with 2 or 3 live neighbours or Dead with 3
\* live neighbours (live neighbours as live_neighbor_count counts them in
\* the generation before the tick); no cell sees an updated value.
C1_TickRule ==
  [][last'.op = "tick" =>
       \A row \in Rows, column \in Cols :
         LET n == live_neighbor_count(row, column)
             was == cells[Index(row, column)]
         IN  (cells'[Index(row, column)] = Alive)
               <=> \/ was = Alive /\ n \in {2, 3}
                   \/ was = Dead /\ n = 3]_vars

\* A tick has run on a full-size grid holding both kinds of cell.
C1_Witness ==
  /\ last.op = "tick"
  /\ width = 3 /\ height = 3
  /\ \E i, j \in DOMAIN cells : cells[i] = Alive /\ cells[j] = Dead

\* C5: the cell sequence has width * height elements at construction, and
\* no call changes width, height or the number of cells.
C5_DimensionsFixed ==
  /\ DOMAIN cells = 0..(width * height - 1)
  /\ [][/\ width' = width
        /\ height' = height
        /\ DOMAIN cells' = 0..(width * height - 1)]_vars

\* A reset has run on a grid that is not square.
C5_Witness ==
  /\ last.op = "reset"
  /\ width = 2 /\ height = 3
  /\ Cardinality(DOMAIN cells) = 6

\* C7: toggle_cell(row, column) flips the cell at row * width + column and
\* leaves every other cell, width and height as they were.
C7_ToggleFrame ==
  [][last'.op = "toggle_cell" =>
       LET idx == Index(last'.args[1], last'.args[2])
       IN  /\ cells[idx] = Alive => cells'[idx] = Dead
           /\ cells[idx] = Dead => cells'[idx] = Alive
           /\ DOMAIN cells' = DOMAIN cells
           /\ \A i \in DOMAIN cells \ {idx} : cells'[i] = cells[i]
           /\ width' = width /\ height' = height]_vars

\* toggle_cell has run on a cell of the last row, leaving it Alive among
\* other Alive cells.
C7_Witness ==
  /\ last = [op |-> "toggle_cell", args |-> <<2, 1>>]
  /\ width = 3 /\ height = 3
  /\ cells[7] = Alive
  /\ Cardinality(AliveSet(cells)) >= 3

\* C8: a tick of an all-Dead grid leaves it all-Dead, and the only calls
\* after which an all-Dead grid holds an Alive cell are toggle_cell,
\* insert_glider and reset.
C8_AllDeadStable ==
  [][AllDead(cells) =>
       /\ last'.op = "tick" => AllDead(cells')
       /\ ~AllDead(cells') => last'.op \in {"toggle_cell", "insert_glider", "reset"}]_vars

\* A tick has run and the grid is all-Dead.
C8_Witness ==
  /\ last.op = "tick"
  /\ width = 3 /\ height = 3
  /\ AllDead(cells)

\* C9: a tick of a grid whose only Alive cell has all its neighbour
\* positions Dead leaves the whole grid Dead.
C9_IsolatedDies ==
  [][(/\ last'.op = "tick"
      /\ \E row \in Rows, column \in Cols :
           /\ AliveSet(cells) = {Index(row, column)}
           /\ \A k \in 1..8 :
                cells[Index(Around(row, column)[k][1], Around(row, column)[k][2])] = Dead)
       => AllDead(cells')]_vars

\* A grid with one Alive cell, at a corner, none of whose neighbour
\* positions is the cell itself.
C9_Witness ==
  /\ width = 3 /\ height = 2
  /\ AliveSet(cells) = {0}
  /\ \A k \in 1..8 : Around(0, 0)[k] # <<0, 0>>

\* C10: after all_kill every cell is Dead, and a render that follows
\* returns the light glyph at every cell position.
C10_ClearThenRender ==
  [][/\ last'.op = "all_kill" =>
          \A i \in 0..(width * height - 1) : cells'[i] = Dead
     /\ (last.op = "all_kill" /\ last'.op = "render") =>
          /\ Len(ret') = height * (width + 1)
          /\ \A row \in Rows, column \in Cols :
               ret'[row * (width + 1) + column + 1] = LightGlyph]_vars

\* A render has returned the text of an all-Dead 3 x 2 grid.
C10_Witness ==
  /\ last.op = "render"
  /\ width = 3 /\ height = 2
  /\ AllDead(cells)
  /\ Len(ret) = 8
  /\ \A k \in {1, 2, 3, 5, 6, 7} : ret[k] = LightGlyph
  /\ ret[4] = Newline /\ ret[8] = Newline

\* The five Alive cells of the glider whose 3 x 3 block is centred at
\* (row, column), as cell indices.
GliderCells(row, column) ==
  {Index((row - 1) % height, column),
   Index(row, (column + 1) % width),
   Index((row + 1) % height, (column - 1) % width),
   Index((row + 1) % height, column),
   Index((row + 1) % height, (column + 1) % width)}

\* C2: on an all-Dead grid at least 5 wide and 5 high, insert_glider(row,
\* column) followed by four ticks leaves Alive exactly the cells of the
\* glider centred one row down and one column right, modulo the grid sizes.
C2_GliderTranslates ==
  (/\ width >= 5 /\ height >= 5
   /\ Len(trail) = 5
   /\ trail[1].op = "insert_glider"
   /\ \A k \in 2..5 : trail[k].op = "tick")
    => AliveSet(cells) =
         GliderCells((trail[1].args[1] + 1) % height, (trail[1].args[2] + 1) % width)

\* Four ticks after a glider was stamped at the bottom right corner of a
\* 6 x 5 grid, so that it crosses both edges.
C2_Witness ==
  /\ width = 6 /\ height = 5
  /\ Len(trail) = 5
  /\ trail[1] = [op |-> "insert_glider", args |-> <<4, 5>>]
  /\ last.op = "tick"

\* C3: neighbor_indexs returns the indices of ((row + dr) mod height,
\* (column + dc) mod width) for dr, dc in {-1, 0, 1} without (0, 0), in the
\* order dr then dc, on every grid with positive sizes; live_neighbor_count
\* returns the number of those eight positions that hold an Alive cell.
C3_NeighborsToroidal ==
  LET around == Around(last.args[1], last.args[2])
  IN  /\ last.op = "neighbor_indexs" =>
           ret = [k \in 1..8 |-> Index(around[k][1], around[k][2])]
      /\ last.op = "live_neighbor_count" =>
           ret = Cardinality({k \in 1..8 : cells[Index(around[k][1], around[k][2])] = Alive})

\* The same statement on the grids at least 2 wide and 2 high.
C3_NeighborsToroidalFrom2 == (width >= 2 /\ height >= 2) => C3_NeighborsToroidal

\* C4: on a grid at least 3 wide and 3 high whose only Alive cell is p,
\* live_neighbor_count is 1 at the cells other than p whose row and column
\* differ from p's by at most one modulo height and width, and 0 elsewhere.
C4_SingleCellCounts ==
  \A prow \in Rows, pcol \in Cols :
    (/\ width >= 3 /\ height >= 3
     /\ AliveSet(cells) = {Index(prow, pcol)}
     /\ last.op = "live_neighbor_count")
      => LET drow == (last.args[1] - prow) % height
             dcol == (last.args[2] - pcol) % width
             near == /\ drow \in {0, 1, height - 1}
                     /\ dcol \in {0, 1, width - 1}
                     /\ <<drow, dcol>> # <<0, 0>>
         IN  ret = IF near THEN 1 ELSE 0

\* The count read at (0, 0) is 1 when the only Alive cell is the opposite
\* corner (height-1, width-1) of a 5 x 4 grid.
C4_Witness ==
  /\ width = 5 /\ height = 4
  /\ AliveSet(cells) = {19}
  /\ last = [op |-> "live_neighbor_count", args |-> <<0, 0>>]
  /\ ret = 1

\* C6: on a grid at least 3 wide and 3 high, insert_glider(row, column)
\* leaves the five glider cells of the block centred at (row, column) Alive,
\* the other four cells of the block Dead, and every cell outside the block
\* as it was.
C6_GliderStamp ==
  [][(last'.op = "insert_glider" /\ width >= 3 /\ height >= 3) =>
       LET row == last'.args[1]
           column == last'.args[2]
           block == {Index((row + dr) % height, (column + dc) % width) :
                       dr \in {-1, 0, 1}, dc \in {-1, 0, 1}}
       IN  /\ \A i \in GliderCells(row, column) : cells'[i] = Alive
           /\ \A i \in block \ GliderCells(row, column) : cells'[i] = Dead
           /\ Cardinality(block) = 9
           /\ DOMAIN cells' = DOMAIN cells
           /\ \A i \in DOMAIN cells \ block : cells'[i] = cells[i]]_vars

\* A glider stamped at the corner (0, 0) of a 4 x 3 grid, with an Alive
\* cell left outside the block.
C6_Witness ==
  /\ width = 4 /\ height = 3
  /\ last = [op |-> "insert_glider", args |-> <<0, 0>>]
  /\ cells[Index(1, 2)] = Alive

\* C11: render returns height lines, each of width glyphs followed by one
\* newline, the glyph of line r, position c being the light glyph when cell
\* r * width + c is Dead and the dark glyph otherwise; render changes no
\* cell and no dimension.
C11_RenderFormat ==
  [][last'.op = "render" =>
       /\ Len(ret') = height * (width + 1)
       /\ \A row \in Rows :
            /\ \A column \in Cols :
                 ret'[row * (width + 1) + column + 1] =
                   IF cells[Index(row, column)] = Dead THEN "U+25FB" ELSE "U+25FC"
            /\ ret'[row * (width + 1) + width + 1] = "\n"
       /\ cells' = cells
       /\ width' = width /\ height' = height]_vars

\* A render has returned the text of a 3 x 2 grid holding both kinds of
\* cell.
C11_Witness ==
  /\ last.op = "render"
  /\ width = 3 /\ height = 2
  /\ cells[0] = Alive /\ cells[4] = Dead
  /\ ret[1] = DarkGlyph /\ ret[6] = LightGlyph

\* C12: toggle_cell(row, column) with row >= height or column >= width
\* fails and changes no cell.
C12_ToggleOutOfRangeFails ==
  [][(/\ last'.op = "toggle_cell"
      /\ (last'.args[1] >= height \/ last'.args[2] >= width))
       => (ret' = Panic /\ cells' = cells)]_vars

\* What the code does instead: the call fails, with no cell changed, exactly
\* when row * width + column is not an index of cells.
C12_ToggleFailsOnIndex ==
  [][last'.op = "toggle_cell" =>
       /\ ret' = Panic <=> Index(last'.args[1], last'.args[2]) >= width * height
       /\ ret' = Panic => cells' = cells]_vars

\* C13: insert_glider(row, column) with row >= height or column >= width
\* fails and changes no cell.
C13_GliderOutOfRangeFails ==
  [][(/\ last'.op = "insert_glider"
      /\ (last'.args[1] >= height \/ last'.args[2] >= width))
       => (ret' = Panic /\ cells' = cells)]_vars

\* What the code does instead: the call fails, with no cell changed, exactly
\* when row * width + column is not an index of cells.
C13_GliderFailsOnIndex ==
  [][last'.op = "insert_glider" =>
       /\ ret' = Panic <=> Index(last'.args[1], last'.args[2]) >= width * height
       /\ ret' = Panic => cells' = cells]_vars

\* C14: on every grid and for every valid (row, column), the index
\* get_index computes and the eight indices neighbor_indexs computes (the
\* indices tick, toggle_cell, insert_glider and live_neighbor_count use) lie
\* in 0 .. width * height - 1, and no call with valid coordinates fails.
C14_IndicesInRange ==
  /\ \A row \in Rows, column \in Cols :
       /\ get_index(row, column) \in 0..(width * height - 1)
       /\ \A i \in 1..8 : neighbor_indexs(row, column)[i] \in 0..(width * height - 1)
  /\ ret # Panic

\* insert_glider has returned normally at the last cell of a 2 x 3 grid.
C14_Witness ==
  /\ width = 2 /\ height = 3
  /\ last = [op |-> "insert_glider", args |-> <<2, 1>>]
  /\ ret = <<>>

\* C16: get_index(row, column) is row * width + column, and it maps the
\* coordinates with row < height and column < width one-to-one onto
\* 0 .. width * height - 1.
C16_IndexBijection ==
  /\ last.op = "get_index" => ret = last.args[1] * width + last.args[2]
  /\ \A r1, r2 \in Rows, c1, c2 \in Cols :
       <<r1, c1>> # <<r2, c2>> => get_index(r1, c1) # get_index(r2, c2)
  /\ {get_index(row, column) : row \in Rows, column \in Cols} = 0..(width * height - 1)

\* get_index has returned the last index of a 2 x 3 grid.
C16_Witness ==
  /\ width = 2 /\ height = 3
  /\ last = [op |-> "get_index", args |-> <<2, 1>>]
  /\ ret = 5

\* C17: while a tick computes the next generation, cells stays what it was
\* when the tick began; cells changes only in the final assignment, made
\* after every loop iteration is done, and then to the whole next
\* generation at once.
C17_ReplacedOnce ==
  [][/\ frame' # <<>> => cells' = cells
     /\ cells' # cells =>
          /\ frame # <<>> /\ frame.k = width * height
          /\ frame' = <<>>
          /\ cells' = TickResult]_vars

\* Partway through a tick of a 3 x 3 grid the local buffer already differs
\* from the visible cells.
C17_Witness ==
  /\ width = 3 /\ height = 3
  /\ frame # <<>>
  /\ frame.k = 4
  /\ frame.next # cells

\* C18: on a grid at least 2 wide and 2 high, translating all cells by
\* (a, b) modulo (height, width) and then calling tick leaves the cell content
\* that calling tick and then translating by (a, b) gives.  (In ShiftSpec
\* trail[1] holds the shift and the tick of the grid before the shift.)
C18_TickCommutesWithShift ==
  (Len(trail) = 2 /\ width >= 2 /\ height >= 2) =>
    cells = Translate(trail[1].ticked, trail[1].args[1], trail[1].args[2])

\* A 3 x 3 grid shifted by (1, 2) and ticked, with live cells left and the
\* shift of the ticked grid not the identity.
C18_Witness ==
  /\ Len(trail) = 2
  /\ width = 3 /\ height = 3
  /\ trail[1].args = <<1, 2>>
  /\ last.op = "tick"
  /\ AliveSet(cells) # {}
  /\ cells # trail[1].ticked

\* C19: after toggle_cell(row, column) with a valid (row, column), a second
\* toggle_cell(row, column) gives back exactly the cell content there was
\* before the first call.  (ToggleResult(row, column)' is what the second
\* call leaves.)
C19_ToggleInvolution ==
  [][(last'.op = "toggle_cell" /\ ret' # Panic) =>
       \A row \in Rows, column \in Cols :
         last'.args = <<row, column>> => ToggleResult(row, column)' = cells]_vars

\* toggle_cell(1, 2) has turned a cell of a 3 x 2 grid Dead, other cells
\* being Alive.
C19_Witness ==
  /\ last = [op |-> "toggle_cell", args |-> <<1, 2>>]
  /\ ret # Panic
  /\ width = 3 /\ height = 2
  /\ cells[5] = Dead
  /\ AliveSet(cells) # {}

====
